---- MODULE Spec2Model ----
(***************************************************************************)
(* A model of the fraud-detection data pipeline scripts:                   *)
(*   scripts/merge_data.py       (fraud index, label enrichment, save)     *)
(*   scripts/validate_schema.py  (schema validation gate, marker file)     *)
(*   scripts/validate_data_ge.py (expectation suite on the merged data)    *)
(*                                                                         *)
(* Values of the dynamically typed source are tagged records               *)
(* [t, n, s]: t the Python type, n an integer payload, s a character       *)
(* sequence, so that values of different Python types can be compared.     *)
(***************************************************************************)
EXTENDS Integers, Sequences, FiniteSets, TLC

\* ------------------------------------------------------------------ bounds
MaxStrLen == 3
MaxAaerRows == 2
MaxFilings == 2

\* ------------------------------------------------------------------ values
V(t, n, s) == [t |-> t, n |-> n, s |-> s]
Null == V("null", 0, <<>>)
IntV(n) == V("int", n, <<>>)
\* a finite float, held in tenths: FloatV(15) is 1.5
FloatV(tenths) == V("float", tenths, <<>>)
NaN == V("nan", 0, <<>>)
Inf == V("inf", 0, <<>>)
StrV(s) == V("str", 0, s)
ListV == V("list", 0, <<>>)

Chars == {"1", "2", ".", "-", "a"}
Digits == {"1", "2"}
DigitVal(c) == IF c = "1" THEN 1 ELSE 2

Strings == UNION {[1..n -> Chars] : n \in 0..MaxStrLen}

RECURSIVE DigitsVal(_)
DigitsVal(s) ==
    IF s = <<>> THEN 0
    ELSE 10 * DigitsVal(SubSeq(s, 1, Len(s) - 1)) + DigitVal(s[Len(s)])

AllDigits(s) == \A i \in 1..Len(s) : s[i] \in Digits

\* result of a coercion: an integer, no integer (None / NaN), or an exception
Coerced(n) == [kind |-> "int", n |-> n, exc |-> "none"]
NotCoerced == [kind |-> "none", n |-> 0, exc |-> "none"]
Raised(e) == [kind |-> "raise", n |-> 0, exc |-> e]

\* truncation toward zero of a float held in tenths
Trunc(tenths) == IF tenths >= 0 THEN tenths \div 10 ELSE -((-tenths) \div 10)

\* Python int(str): optional sign, then one or more digits, nothing else
PyIntOfStr(s) ==
    LET neg == Len(s) > 0 /\ s[1] = "-"
        body == IF neg THEN SubSeq(s, 2, Len(s)) ELSE s
    IN  IF Len(body) > 0 /\ AllDigits(body)
        THEN Coerced(IF neg THEN -DigitsVal(body) ELSE DigitsVal(body))
        ELSE Raised("ValueError")

\* Python int(x) by the type of x
PyInt(v) ==
    CASE v.t = "int" -> Coerced(v.n)
      [] v.t = "float" -> Coerced(Trunc(v.n))
      [] v.t = "nan" -> Raised("ValueError")
      [] v.t = "inf" -> Raised("OverflowError")
      [] v.t = "str" -> PyIntOfStr(v.s)
      [] OTHER -> Raised("TypeError")

\* enrich_with_fraud_labels: raw_cik -> cik_int; only TypeError and
\* ValueError are caught, any other exception leaves the function
EnrichCoerce(raw_cik) ==
    IF raw_cik = Null THEN NotCoerced
    ELSE LET r == PyInt(raw_cik)
         IN  IF r.kind = "raise" /\ r.exc \in {"TypeError", "ValueError"}
             THEN NotCoerced
             ELSE r

\* pandas.to_numeric(errors="coerce") on a string: optional sign, then
\* digits with an optional fraction, or a fraction alone; the float it
\* yields is kept as integer part and "has a value" (NaN otherwise)
PdFloatOfStr(s) ==
    LET neg == Len(s) > 0 /\ s[1] = "-"
        body == IF neg THEN SubSeq(s, 2, Len(s)) ELSE s
        dots == {i \in 1..Len(body) : body[i] = "."}
        whole == IF dots = {} THEN body
                 ELSE SubSeq(body, 1, (CHOOSE i \in dots : TRUE) - 1)
        frac == IF dots = {} THEN <<>>
                ELSE SubSeq(body, (CHOOSE i \in dots : TRUE) + 1, Len(body))
        ok == /\ Cardinality(dots) <= 1
              /\ AllDigits(whole) /\ AllDigits(frac)
              /\ Len(whole) + Len(frac) > 0
    IN  IF ok THEN Coerced(IF neg THEN -DigitsVal(whole) ELSE DigitsVal(whole))
        ELSE NotCoerced

\* load_aaer_as_fraud_index: dropna, to_numeric(errors="coerce"), dropna,
\* astype(int) on one cell of the cik column
BuilderCoerce(cell) ==
    CASE cell.t = "null" -> NotCoerced
      [] cell.t = "nan" -> NotCoerced
      [] cell.t = "int" -> Coerced(cell.n)
      [] cell.t = "float" -> Coerced(Trunc(cell.n))
      [] cell.t = "inf" -> Raised("IntCastingNaNError")
      [] cell.t = "str" -> PdFloatOfStr(cell.s)
      [] OTHER -> NotCoerced

\* ------------------------------------------------------------------ dicts
\* A Python dict is a sequence of [k, v] items in insertion order, keys unique.
DictHas(d, k) == \E i \in 1..Len(d) : d[i].k = k
DictGet(d, k, default) ==
    IF DictHas(d, k) THEN d[CHOOSE i \in 1..Len(d) : d[i].k = k].v ELSE default
\* d[k] = v: an existing key keeps its place, a new key is appended
DictSet(d, k, v) ==
    IF DictHas(d, k)
    THEN [i \in 1..Len(d) |-> IF d[i].k = k THEN [k |-> k, v |-> v] ELSE d[i]]
    ELSE Append(d, [k |-> k, v |-> v])
DictKeys(d) == {d[i].k : i \in 1..Len(d)}

\* ------------------------------------------------ merge_data.py: the index
EmptyIndex == [c \in {} |-> 0]

\* fraud_entry of one row: the five fields kept from the row
FraudEntry(row) ==
    [aaerNo |-> row.aaerNo, fraud_start |-> row.fraud_start,
     fraud_end |-> row.fraud_end, dateTime |-> row.dateTime,
     releaseNo |-> row.releaseNo]

\* mutant: the first record of a key is kept
IndexPut_FirstWins(idx, cik, entry) ==
    [c \in DOMAIN idx \cup {cik} |-> IF c \in DOMAIN idx THEN idx[c] ELSE entry]

\* fraud_index[cik] = fraud_entry
IndexPut(idx, cik, entry) ==
    [c \in DOMAIN idx \cup {cik} |-> IF c = cik THEN entry ELSE idx[c]]

\* the rows left after dropna / to_numeric / dropna, in source order
RECURSIVE ValidRows(_)
ValidRows(rows) ==
    IF rows = <<>> THEN <<>>
    ELSE IF BuilderCoerce(Head(rows).cik).kind = "int"
         THEN <<Head(rows)>> \o ValidRows(Tail(rows))
         ELSE ValidRows(Tail(rows))

\* for _, row in df.iterrows(): fraud_index[int(row["cik"])] = fraud_entry
RECURSIVE BuildIndex(_, _)
BuildIndex(rows, idx) ==
    IF rows = <<>> THEN idx
    ELSE BuildIndex(Tail(rows),
                    IndexPut(idx, BuilderCoerce(Head(rows).cik).n,
                             FraudEntry(Head(rows))))

\* astype(int) raises when a non-finite value is left in the column
AstypeRaises(rows) ==
    \E i \in 1..Len(rows) : BuilderCoerce(rows[i].cik).kind = "raise"

\* ------------------------------------------- merge_data.py: the enrichment
\* mutant: the fraud period's start and end are exchanged
EnrichMatched_SwapsPeriod(e, fraud_meta) ==
    LET e1 == DictSet(e, "is_fraud", IntV(1))
        e2 == DictSet(e1, "fraud_aaer_no", fraud_meta.aaerNo)
        e3 == DictSet(e2, "fraud_start", fraud_meta.fraud_end)
        e4 == DictSet(e3, "fraud_end", fraud_meta.fraud_start)
        e5 == DictSet(e4, "fraud_case_datetime", fraud_meta.dateTime)
    IN  DictSet(e5, "fraud_release_no", fraud_meta.releaseNo)

\* the six derived fields of a matched entry, set in the code's order
EnrichMatched(e, fraud_meta) ==
    LET e1 == DictSet(e, "is_fraud", IntV(1))
        e2 == DictSet(e1, "fraud_aaer_no", fraud_meta.aaerNo)
        e3 == DictSet(e2, "fraud_start", fraud_meta.fraud_start)
        e4 == DictSet(e3, "fraud_end", fraud_meta.fraud_end)
        e5 == DictSet(e4, "fraud_case_datetime", fraud_meta.dateTime)
    IN  DictSet(e5, "fraud_release_no", fraud_meta.releaseNo)

\* mutant: the unmatched branch sets the period before the case number
EnrichUnmatched_OtherOrder(e) ==
    LET e1 == DictSet(e, "is_fraud", IntV(0))
        e2 == DictSet(e1, "fraud_start", Null)
        e3 == DictSet(e2, "fraud_end", Null)
        e4 == DictSet(e3, "fraud_aaer_no", Null)
        e5 == DictSet(e4, "fraud_case_datetime", Null)
    IN  DictSet(e5, "fraud_release_no", Null)

\* the six derived fields of an unmatched entry, set in the code's order
EnrichUnmatched(e) ==
    LET e1 == DictSet(e, "is_fraud", IntV(0))
        e2 == DictSet(e1, "fraud_aaer_no", Null)
        e3 == DictSet(e2, "fraud_start", Null)
        e4 == DictSet(e3, "fraud_end", Null)
        e5 == DictSet(e4, "fraud_case_datetime", Null)
    IN  DictSet(e5, "fraud_release_no", Null)

\* cik_int is not None and cik_int in fraud_index
IsMatch(c, idx) == c.kind = "int" /\ c.n \in DOMAIN idx

\* The records of firm_years are the objects 1..Len(firm_years) of a heap,
\* in list order; a record created by the call is a further object.

\* mutant: e is the input record itself
DictCopy_Alias(heap, ref) == [heap |-> heap, ref |-> ref]

\* e = dict(entry): a new object with the items of the object at ref
DictCopy(heap, ref) == [heap |-> Append(heap, heap[ref]), ref |-> Len(heap) + 1]

\* mutant: the record is put in front of the list
ListAppend_AtFront(list, e) == <<e>> \o list

\* enriched.append(e)
ListAppend(list, e) == Append(list, e)

\* mutant: the else branch adds to the counter of the matched branch
EnrichStep_TalliesUnmatchedAsFraud(acc, i, idx) ==
    LET copy == DictCopy(acc.heap, i)
        e == copy.ref
        c == EnrichCoerce(DictGet(copy.heap[e], "cik", Null))
    IN  IF c.kind = "raise"
        THEN [acc EXCEPT !.heap = copy.heap, !.exc = c.exc]
        ELSE IF IsMatch(c, idx)
        THEN [acc EXCEPT
                !.heap = [copy.heap EXCEPT ![e] = EnrichMatched(@, idx[c.n])],
                !.refs = ListAppend(@, e),
                !.fraud_count = @ + 1]
        ELSE [acc EXCEPT
                !.heap = [copy.heap EXCEPT ![e] = EnrichUnmatched(@)],
                !.refs = ListAppend(@, e),
                !.fraud_count = @ + 1]

\* one iteration of the loop over firm_years, on the accumulated result;
\* entry is the object at position i of the input list
EnrichStep(acc, i, idx) ==
    LET copy == DictCopy(acc.heap, i)
        e == copy.ref
        c == EnrichCoerce(DictGet(copy.heap[e], "cik", Null))
    IN  IF c.kind = "raise"
        THEN [acc EXCEPT !.heap = copy.heap, !.exc = c.exc]
        ELSE IF IsMatch(c, idx)
        THEN [acc EXCEPT
                !.heap = [copy.heap EXCEPT ![e] = EnrichMatched(@, idx[c.n])],
                !.refs = ListAppend(@, e),
                !.fraud_count = @ + 1]
        ELSE [acc EXCEPT
                !.heap = [copy.heap EXCEPT ![e] = EnrichUnmatched(@)],
                !.refs = ListAppend(@, e),
                !.non_fraud_count = @ + 1]

\* the loop; an exception ends it
RECURSIVE EnrichLoop(_, _, _, _)
EnrichLoop(acc, i, n, idx) ==
    IF i > n \/ acc.exc # "none" THEN acc
    ELSE EnrichLoop(EnrichStep(acc, i, idx), i + 1, n, idx)

\* enrich_with_fraud_labels(firm_years, fraud_index): the returned list
\* (its records and the objects they are), the tallies, the exception that
\* left the call if any, and the input list as the call leaves it
EnrichWithFraudLabels(entries, idx) ==
    LET r == EnrichLoop([heap |-> entries, refs |-> <<>>, fraud_count |-> 0,
                         non_fraud_count |-> 0, exc |-> "none"],
                        1, Len(entries), idx)
    IN  [enriched |-> [k \in 1..Len(r.refs) |-> r.heap[r.refs[k]]],
         refs |-> r.refs,
         fraud_count |-> r.fraud_count,
         non_fraud_count |-> r.non_fraud_count,
         exc |-> r.exc,
         input_after |-> SubSeq(r.heap, 1, Len(entries))]

\* ------------------------------------------ validate_schema.py: the checks
SAMPLE_SIZE == 5
COVERAGE_NUM == 8
COVERAGE_DEN == 10
MDA_MIN_LEN == 10

\* A column name is the sequence of the header's tokens between two
\* separators; a header token is a name or a separator character.
RECURSIVE SplitHeader(_, _, _)
SplitHeader(tokens, sep, cur) ==
    IF tokens = <<>> THEN <<cur>>
    ELSE IF Head(tokens) = sep
         THEN <<cur>> \o SplitHeader(Tail(tokens), sep, <<>>)
         ELSE SplitHeader(Tail(tokens), sep, Append(cur, Head(tokens)))

\* set(pd.read_csv(path, sep=sep).columns)
ReadCsvColumns(header, sep) ==
    LET fields == SplitHeader(header, sep, <<>>)
    IN  {fields[i] : i \in 1..Len(fields)}

Outcome(passed, msg, missing) ==
    [passed |-> passed, msg |-> msg, missing |-> missing]

\* set(pd.read_csv(csv_path, nrows=5).columns): pd.read_csv is called
\* without sep, so the header is split at commas
ActualColumns(file) == ReadCsvColumns(file.header, ",")

\* mutant: only one of the missing columns is reported
MissingColumns_FirstOnly(expected_set, actual_columns) ==
    LET all == expected_set \ actual_columns
    IN  IF all = {} THEN {} ELSE {CHOOSE c \in all : TRUE}

\* missing_columns = expected_set - actual_columns
MissingColumns(expected_set, actual_columns) == expected_set \ actual_columns

\* validate_csv_schema(csv_path, expected_columns)
ValidateCsvSchema(file, expected_columns) ==
    LET actual_columns == ActualColumns(file)
        missing_columns == MissingColumns(expected_columns, actual_columns)
    IN  IF ~file.exists THEN Outcome(FALSE, "File not found", {})
        ELSE IF file.header = <<>> THEN Outcome(FALSE, "CSV file is empty", {})
        ELSE IF missing_columns # {}
        THEN Outcome(FALSE, "Missing columns", missing_columns)
        ELSE IF file.nrows = 0
        THEN Outcome(FALSE, "CSV file is empty (0 rows)", {})
        ELSE Outcome(TRUE, "Valid CSV", {})

\* mutant: every entry of the file is inspected
SamplePrefix_WholeFile(entries, sample_size) == entries

\* sample_keys = list(data.keys())[:sample_size]
SamplePrefix(entries, sample_size) ==
    SubSeq(entries, 1, IF Len(entries) < sample_size THEN Len(entries)
                       ELSE sample_size)

\* the loop over the sample of validate_json_schema: the first entry that
\* is not a dict or misses a key ends it; when no entry does, the caller
\* puts len(data) in the message
RECURSIVE JsonSampleLoop(_, _)
JsonSampleLoop(sample, expected_keys) ==
    IF sample = <<>> THEN Outcome(TRUE, "Valid JSON", {})
    ELSE IF ~Head(sample).isdict THEN Outcome(FALSE, "Entry is not a dict", {})
    ELSE IF expected_keys \ Head(sample).keys # {}
    THEN Outcome(FALSE, "Entry missing keys", expected_keys \ Head(sample).keys)
    ELSE JsonSampleLoop(Tail(sample), expected_keys)

\* validate_json_schema(json_path, expected_keys, sample_size)
ValidateJsonSchema(file, expected_keys, sample_size) ==
    IF ~file.exists THEN Outcome(FALSE, "File not found", {})
    ELSE IF ~file.valid THEN Outcome(FALSE, "Invalid JSON format", {})
    ELSE IF file.kind # "dict" THEN Outcome(FALSE, "Expected dict at top level", {})
    ELSE IF Len(file.entries) = 0 THEN Outcome(FALSE, "JSON file is empty", {})
    ELSE LET r == JsonSampleLoop(SamplePrefix(file.entries, sample_size),
                                 expected_keys)
         IN  IF r.passed
             THEN Outcome(TRUE, <<"Valid JSON with", Len(file.entries),
                                  "entries">>, {})
             ELSE r

\* mutant: a coverage of exactly 0.8 is refused
CoverageBelow_Inclusive(actual_ratios, expected_set) ==
    Cardinality(actual_ratios \cap expected_set) * COVERAGE_DEN
        <= COVERAGE_NUM * Cardinality(expected_set)

\* coverage < 0.8, coverage = len(actual & expected) / len(expected); the
\* quotient of two integers is the float nearest to the ratio, as is the
\* literal 0.8, so the comparison is the one of the exact ratios
CoverageBelow(actual_ratios, expected_set) ==
    Cardinality(actual_ratios \cap expected_set) * COVERAGE_DEN
        < COVERAGE_NUM * Cardinality(expected_set)

\* f"{coverage:.1%}": the coverage in tenths of a percent, rounded
CoverageTenths(actual_ratios, expected_set) ==
    (2000 * Cardinality(actual_ratios \cap expected_set)
        + Cardinality(expected_set)) \div (2 * Cardinality(expected_set))

\* f"Entry '{key}' has only {coverage:.1%} of expected ratios. Missing: ..."
CoverageMessage(actual_ratios, expected_set) ==
    <<"Entry has only", CoverageTenths(actual_ratios, expected_set),
      "tenths of a percent of expected ratios">>

\* the loop over the sample of validate_firm_years_structure
RECURSIVE StructureSampleLoop(_, _)
StructureSampleLoop(sample, expected_set) ==
    IF sample = <<>> THEN Outcome(TRUE, "Valid nested structure", {})
    ELSE LET entry == Head(sample)
         IN  IF ~entry.isdict
             THEN Outcome(FALSE, "Validation error", {})
             ELSE IF "financial_ratios" \notin entry.keys
             THEN Outcome(FALSE, "Entry missing 'financial_ratios' key", {})
             ELSE IF ~entry.ratios_isdict
             THEN Outcome(FALSE, "financial_ratios is not dict", {})
             ELSE IF expected_set = {}
             THEN Outcome(FALSE, "Validation error", {})
             ELSE IF CoverageBelow(entry.ratios, expected_set)
             THEN Outcome(FALSE, CoverageMessage(entry.ratios, expected_set),
                          expected_set \ entry.ratios)
             ELSE IF ~entry.mda_isstr \/ entry.mda_len < MDA_MIN_LEN
             THEN Outcome(FALSE, "Entry has invalid or empty MDA text", {})
             ELSE StructureSampleLoop(Tail(sample), expected_set)

\* validate_firm_years_structure(json_path, expected_ratio_features,
\* sample_size); any exception (unreadable file, a top level without keys)
\* is turned into a failure
ValidateFirmYearsStructure(file, expected_ratio_features, sample_size) ==
    IF ~file.exists \/ ~file.valid \/ file.kind # "dict"
    THEN Outcome(FALSE, "Validation error", {})
    ELSE StructureSampleLoop(SamplePrefix(file.entries, sample_size),
                             expected_ratio_features)

\* ------------------------------- validate_schema.py: run_schema_validation
NotRun == Outcome(FALSE, "not run", {})

CheckNames == {"csv", "labels", "top", "nested"}

\* mutant: a failed check ends the run, the checks after it are skipped
RunChecks_ShortCircuit(csv, labels, features, aaer_cols, required_keys, ratio_features) ==
    LET r_csv == ValidateCsvSchema(csv, aaer_cols)
        r_labels == ValidateJsonSchema(labels, {"fraud_label"}, SAMPLE_SIZE)
        r_top == ValidateJsonSchema(features, required_keys, SAMPLE_SIZE)
        r_nested == ValidateFirmYearsStructure(features, ratio_features,
                                               SAMPLE_SIZE)
        skipped == [ran |-> FALSE, out |-> NotRun]
    IN  [csv |-> [ran |-> TRUE, out |-> r_csv],
         labels |-> IF r_csv.passed THEN [ran |-> TRUE, out |-> r_labels]
                    ELSE skipped,
         top |-> IF r_csv.passed /\ r_labels.passed
                 THEN [ran |-> TRUE, out |-> r_top] ELSE skipped,
         nested |-> IF r_csv.passed /\ r_labels.passed /\ r_top.passed
                    THEN [ran |-> TRUE, out |-> r_nested] ELSE skipped]

\* the four checks in the order of the code, each with its name, whether it
\* was executed, and its outcome; the nested check runs only in the else
\* branch of the top-level check
RunChecks(csv, labels, features, aaer_cols, required_keys, ratio_features) ==
    LET r_csv == ValidateCsvSchema(csv, aaer_cols)
        r_labels == ValidateJsonSchema(labels, {"fraud_label"}, SAMPLE_SIZE)
        r_top == ValidateJsonSchema(features, required_keys, SAMPLE_SIZE)
        r_nested == ValidateFirmYearsStructure(features, ratio_features,
                                               SAMPLE_SIZE)
    IN  [csv |-> [ran |-> TRUE, out |-> r_csv],
         labels |-> [ran |-> TRUE, out |-> r_labels],
         top |-> [ran |-> TRUE, out |-> r_top],
         nested |-> IF r_top.passed THEN [ran |-> TRUE, out |-> r_nested]
                    ELSE [ran |-> FALSE, out |-> NotRun]]

\* mutant: a failure of the nested-structure check does not clear all_passed
AllPassed_IgnoresNested(checks) ==
    \A c \in {"csv", "labels", "top"} : checks[c].ran => checks[c].out.passed

\* all_passed at the end of the run: set to False by each executed check
\* that did not pass
AllPassed(checks) ==
    \A c \in CheckNames : checks[c].ran => checks[c].out.passed

\* the checks whose failure the run logged with logger.error
LoggedFailures(checks) ==
    {c \in CheckNames : checks[c].ran /\ ~checks[c].out.passed}

\* ------------------------------------- validate_data_ge.py: expectations
CIK_MAX == 9999999
MDA_LEN_MIN == 100
MDA_LEN_MAX == 1000000
URL_MOSTLY_PCT == 99
MDA_MOSTLY_PCT == 70
MaxGeRows == 4

REQUIRED_COLS == {"cik", "name", "filing_date", "reporting_date", "url",
                  "mda", "is_fraud", "fraud_aaer_no", "fraud_start",
                  "fraud_end"}

\* require_columns(df, required): the columns of required that df lacks
MissingRequired(columns, required) == {c \in required : c \notin columns}

Count(rows, P(_)) == Cardinality({i \in 1..Len(rows) : P(rows[i])})

\* a column-map expectation of the library: of the values it looks at, the
\* share of expected ones must reach mostly (in percent); it succeeds when
\* it looks at no value
MostlySucceeds(expected, looked_at, mostly_pct) ==
    looked_at = 0 \/ expected * 100 >= mostly_pct * looked_at

\* regex ^https?:// on a url held as <<scheme, "://", rest>>
MatchesHttp(url) ==
    url.t = "str" /\ Len(url.s) >= 2 /\ url.s[1] \in {"http", "https"}
        /\ url.s[2] = "://"

\* the seven expectations added to the suite, each with its outcome on df;
\* all but the not-null ones look at the non-null values only
SuiteOutcomes(rows) ==
    LET CikSet(r) == r.cik # Null
        CikIn(r) == r.cik # Null /\ r.cik.n >= 0 /\ r.cik.n <= CIK_MAX
        FraudSet(r) == r.is_fraud # Null
        FraudIn(r) == r.is_fraud # Null /\ r.is_fraud.n \in {0, 1}
        UrlSet(r) == r.url # Null
        UrlOk(r) == r.url # Null /\ MatchesHttp(r.url)
        MdaSet(r) == r.mda # Null
        MdaOk(r) == r.mda # Null /\ r.mda.n >= MDA_LEN_MIN
                        /\ r.mda.n <= MDA_LEN_MAX
    IN  [cik_not_null |-> MostlySucceeds(Count(rows, CikSet), Len(rows), 100),
         cik_between |->
             MostlySucceeds(Count(rows, CikIn), Count(rows, CikSet), 100),
         is_fraud_not_null |->
             MostlySucceeds(Count(rows, FraudSet), Len(rows), 100),
         is_fraud_in_set |->
             MostlySucceeds(Count(rows, FraudIn), Count(rows, FraudSet), 100),
         url_regex |->
             MostlySucceeds(Count(rows, UrlOk), Count(rows, UrlSet),
                            URL_MOSTLY_PCT),
         mda_not_null |->
             MostlySucceeds(Count(rows, MdaSet), Len(rows), MDA_MOSTLY_PCT),
         mda_length |->
             MostlySucceeds(Count(rows, MdaOk), Count(rows, MdaSet),
                            MDA_MOSTLY_PCT)]

HardExpectations == {"cik_not_null", "cik_between", "is_fraud_not_null",
                     "is_fraud_in_set"}
SoftExpectations == {"url_regex", "mda_not_null", "mda_length"}

\* mutant: an expectation with a mostly threshold only warns
SuiteSuccess_SoftOnlyWarns(outcomes) ==
    \A x \in HardExpectations : outcomes[x]

\* result.success of batch.validate(suite): every expectation succeeded
SuiteSuccess(outcomes) ==
    \A x \in HardExpectations \cup SoftExpectations : outcomes[x]

\* main(): its return value is the exit code; an exception leaving it
\* ends the process with code 1; missing is the list in the message of
\* the ValueError of require_columns
GeMain(input) ==
    IF ~input.exists
    THEN [done |-> TRUE, validated |-> FALSE, outcomes |-> SuiteOutcomes(<<>>),
          success |-> FALSE, report |-> FALSE, exit |-> 1, exc |-> "none",
          missing |-> {}]
    ELSE IF MissingRequired(input.columns, REQUIRED_COLS) # {}
    THEN [done |-> TRUE, validated |-> FALSE, outcomes |-> SuiteOutcomes(<<>>),
          success |-> FALSE, report |-> FALSE, exit |-> 1,
          exc |-> "ValueError",
          missing |-> MissingRequired(input.columns, REQUIRED_COLS)]
    ELSE LET outcomes == SuiteOutcomes(input.rows)
             success == SuiteSuccess(outcomes)
         IN  [done |-> TRUE, validated |-> TRUE, outcomes |-> outcomes,
              success |-> success, report |-> TRUE,
              exit |-> IF success THEN 0 ELSE 2, exc |-> "none",
              missing |-> {}]

\* ------------------------------------------------------------------ state
VARIABLES
    aaer_file,        \* data/raw AAER CSV as read with the configured delimiter
    labels_file,      \* data/raw firm_years_labels.json
    fraud_index,      \* run_merge_pipeline: fraud_index
    firm_years,       \* run_merge_pipeline: firm_years
    enriched,         \* run_merge_pipeline: enriched
    enriched_refs,    \* the objects that the records of enriched are
    rerun,            \* a second call of the enrichment on the same arguments
    fraud_count,
    non_fraud_count,
    merge_exc,        \* the exception that left the pipeline, "none" if none
    parquet,          \* the output dataset in data/interim
    merge_pc,         \* position of the merge process
    merge_stage,      \* the function of the pipeline called last
    merge_exit,       \* exit code of the merge process, -1 while it runs
    raw_id,           \* a raw identifier value handed to both coercions
    enrich_cik,       \* what the enricher's coercion made of raw_id
    builder_cik,      \* what the index builder's coercion made of raw_id
    gate_csv,         \* the AAER CSV as text: header tokens and data rows
    csv_delimiter,    \* params: schema_validation.csv_delimiter
    gate_labels,      \* data/raw labels JSON read by the schema gate
    gate_features,    \* data/raw firm_years JSON read by the schema gate
    marker,           \* the marker file of the schema gate
    last_run,         \* what the last run of run_schema_validation did
    crash,            \* where the last run of the gate was killed, if it was
    validator_read,   \* validate_csv_schema's reading of gate_csv
    builder_read,     \* load_aaer_as_fraud_index's reading of gate_csv
    csv_check,        \* validate_csv_schema's outcome on gate_csv
    ge_input,         \* the labelled dataset read by validate_data_ge.py
    ge_result,        \* what the last run of validate_data_ge.py did
    params_found,     \* params.yaml exists
    sample_size,      \* validate_json_schema: sample_size
    json_check        \* validate_json_schema's outcome on gate_features

merge_vars == <<aaer_file, labels_file, fraud_index, firm_years, enriched,
                enriched_refs, rerun, fraud_count, non_fraud_count, merge_exc,
                parquet, merge_pc, merge_stage, merge_exit>>
coerce_vars == <<raw_id, enrich_cik, builder_cik>>
gate_vars == <<gate_csv, csv_delimiter, gate_labels, gate_features, marker,
               last_run, crash>>
csv_vars == <<validator_read, builder_read, csv_check>>
ge_vars == <<ge_input, ge_result>>
config_vars == <<params_found>>
json_vars == <<sample_size, json_check>>
vars == <<merge_vars, coerce_vars, gate_vars, csv_vars, ge_vars, config_vars,
          json_vars>>

\* ------------------------------------------------------------------ inputs
Text(s) == StrV(<<s>>)

\* the non-identifier cells of an AAER row; an empty cell reads as NaN
MetaA == [aaerNo |-> Text("AAER-1"), fraud_start |-> Text("2001-01-01"),
          fraud_end |-> Text("2002-12-31"), dateTime |-> Text("2003-05-01"),
          releaseNo |-> Text("33-1")]
MetaB == [aaerNo |-> Text("AAER-2"), fraud_start |-> NaN,
          fraud_end |-> Text("2005-12-31"), dateTime |-> Text("2006-05-01"),
          releaseNo |-> Text("33-2")]

\* the cik cell of an AAER row is text of the file, or empty
AaerRow(c, m) ==
    [cik |-> c, aaerNo |-> m.aaerNo, fraud_start |-> m.fraud_start,
     fraud_end |-> m.fraud_end, dateTime |-> m.dateTime,
     releaseNo |-> m.releaseNo]

AaerRows ==
    {AaerRow(c, m) : c \in {StrV(<<"1">>), StrV(<<"1", ".", "2">>)},
                     m \in {MetaA, MetaB}}
    \cup {AaerRow(Null, MetaA), AaerRow(StrV(<<"a">>), MetaB)}

AaerFiles ==
    {[exists |-> FALSE, has_cik |-> FALSE, rows |-> <<>>],
     [exists |-> TRUE, has_cik |-> FALSE, rows |-> <<>>]}
    \cup {[exists |-> TRUE, has_cik |-> TRUE, rows |-> r] :
            r \in UNION {[1..n -> AaerRows] : n \in 0..MaxAaerRows}}

\* identifier values of a filing in the labels JSON
FilingCiks ==
    {Null, IntV(1), IntV(2), FloatV(12), Inf, StrV(<<"1">>),
     StrV(<<"1", ".", "2">>)}

\* a filing may lack the identifier, and may already carry a label
Filings ==
    {<<[k |-> "name", v |-> Text("Acme")]>>,
     <<[k |-> "is_fraud", v |-> IntV(7)], [k |-> "cik", v |-> IntV(1)]>>}
    \cup {<<[k |-> "cik", v |-> c], [k |-> "name", v |-> Text("Acme")]>> :
            c \in FilingCiks}

LabelFiles ==
    {[exists |-> FALSE, kind |-> "list", data |-> <<>>],
     [exists |-> TRUE, kind |-> "dict", data |-> <<>>]}
    \cup {[exists |-> TRUE, kind |-> "list", data |-> d] :
            d \in UNION {[1..n -> Filings] : n \in 0..MaxFilings}}

\* ------------------------------------------------- inputs of the schema gate
\* params: schema_validation.aaer_columns, firm_years_required_keys,
\* financial_ratio_features
AAER_COLUMNS == {<<"cik">>, <<"aaerNo">>}
REQUIRED_KEYS == {"cik", "mda_text", "financial_ratios"}
RATIO_FEATURES == {"current_ratio", "debt_to_equity", "roa", "roe", "margin"}

CsvFile(exists, header, nrows) ==
    [exists |-> exists, header |-> header, nrows |-> nrows]

GateCsvFiles ==
    {CsvFile(FALSE, <<>>, 0),
     CsvFile(TRUE, <<"cik", ",", "aaerNo">>, 1),
     CsvFile(TRUE, <<"cik", ",", "aaerNo">>, 0),
     CsvFile(TRUE, <<"cik", ";", "aaerNo">>, 1)}

Entry(keys, ratios, mda_len) ==
    [isdict |-> TRUE, keys |-> keys, ratios_isdict |-> TRUE,
     ratios |-> ratios, mda_isstr |-> TRUE, mda_len |-> mda_len]

JsonFile(exists, kind, entries) ==
    [exists |-> exists, valid |-> TRUE, kind |-> kind, entries |-> entries]

LabelGood == Entry({"fraud_label"}, {}, 0)
LabelBad == Entry({"label"}, {}, 0)

GateLabelsFiles ==
    {JsonFile(FALSE, "dict", <<>>),
     JsonFile(TRUE, "list", <<LabelGood>>),
     JsonFile(TRUE, "dict", <<LabelGood>>),
     JsonFile(TRUE, "dict", <<LabelGood, LabelBad>>)}

FeatureGood == Entry(REQUIRED_KEYS, RATIO_FEATURES, 500)
FeatureCover80 == Entry(REQUIRED_KEYS, (RATIO_FEATURES \ {"roe"}) \cup {"other"}, 500)
FeatureCover60 == Entry(REQUIRED_KEYS, RATIO_FEATURES \ {"roe", "roa"}, 500)
FeatureShortMda == Entry(REQUIRED_KEYS, RATIO_FEATURES, 9)
FeatureNoCik == Entry(REQUIRED_KEYS \ {"cik"}, RATIO_FEATURES, 500)

GateFeaturesFiles ==
    {JsonFile(FALSE, "dict", <<>>),
     JsonFile(TRUE, "dict", <<FeatureGood>>),
     JsonFile(TRUE, "dict", <<FeatureCover80, FeatureGood>>),
     JsonFile(TRUE, "dict", <<FeatureGood, FeatureCover60>>),
     JsonFile(TRUE, "dict", <<FeatureShortMda>>),
     JsonFile(TRUE, "dict", <<FeatureGood, FeatureNoCik>>)}

NoMarker == [exists |-> FALSE, lines |-> 0]
NoRun ==
    [ran |-> FALSE,
     checks |-> [c \in CheckNames |-> [ran |-> FALSE, out |-> NotRun]],
     nested_sample |-> <<>>, logged |-> {}, all_passed |-> FALSE,
     wrote_marker |-> FALSE, returned |-> FALSE, exit |-> -1]
NoRead == [done |-> FALSE, columns |-> {}, accepted |-> FALSE]
NoCrash == [crashed |-> FALSE, at |-> "none", all_passed |-> FALSE]
NoCheck == [done |-> FALSE, out |-> NotRun]

\* the configuration is found, validate_json_schema is not being examined
ConfigIdle ==
    params_found = TRUE /\ sample_size = SAMPLE_SIZE /\ json_check = NoCheck

GateIdle ==
    /\ gate_csv = CsvFile(FALSE, <<>>, 0)
    /\ csv_delimiter = ";"
    /\ gate_labels = JsonFile(FALSE, "dict", <<>>)
    /\ gate_features = JsonFile(FALSE, "dict", <<>>)
    /\ marker = NoMarker
    /\ last_run = NoRun
    /\ crash = NoCrash

CsvIdle ==
    validator_read = NoRead /\ builder_read = NoRead /\ csv_check = NoCheck

\* ------------------------------------------ inputs of validate_data_ge.py
Url(scheme) == StrV(<<scheme, "://", "sec.gov/x">>)
\* a narrative text of the given length
Mda(len) == V("str", len, <<"mda">>)

GeRow(cik, url, mda) ==
    [cik |-> cik, is_fraud |-> IntV(0), url |-> url, mda |-> mda]

GeRows ==
    {GeRow(c, u, m) : c \in {IntV(1), Null}, u \in {Url("https"), Url("ftp")},
                      m \in {Mda(500), Mda(50), Null}}

GeInputs ==
    {[exists |-> FALSE, columns |-> {}, rows |-> <<>>],
     [exists |-> TRUE, columns |-> REQUIRED_COLS \ {"mda"}, rows |-> <<>>]}
    \cup {[exists |-> TRUE, columns |-> REQUIRED_COLS, rows |-> r] :
            r \in UNION {[1..n -> GeRows] : n \in 0..MaxGeRows}}

NoGeResult ==
    [done |-> FALSE, validated |-> FALSE, outcomes |-> SuiteOutcomes(<<>>),
     success |-> FALSE, report |-> FALSE, exit |-> -1, exc |-> "none",
     missing |-> {}]

GeIdle ==
    /\ ge_input = [exists |-> FALSE, columns |-> {}, rows |-> <<>>]
    /\ ge_result = NoGeResult

Unset == [kind |-> "unset", n |-> 0, exc |-> "none"]
NoParquet == [exists |-> FALSE, rows |-> <<>>]
NoRerun == [done |-> FALSE, enriched |-> <<>>, fraud_count |-> 0,
            non_fraud_count |-> 0, exc |-> "none"]

MergeIdle ==
    /\ aaer_file = [exists |-> FALSE, has_cik |-> FALSE, rows |-> <<>>]
    /\ labels_file = [exists |-> FALSE, kind |-> "list", data |-> <<>>]
    /\ fraud_index = EmptyIndex /\ firm_years = <<>> /\ enriched = <<>>
    /\ enriched_refs = <<>> /\ rerun = NoRerun
    /\ fraud_count = 0 /\ non_fraud_count = 0 /\ merge_exc = "none"
    /\ parquet = NoParquet /\ merge_pc = "idle" /\ merge_stage = "none"
    /\ merge_exit = -1

CoerceIdle == raw_id = Null /\ enrich_cik = Unset /\ builder_cik = Unset

\* ------------------------------------------------ merge_data.py: pipeline
MergeInit ==
    /\ ConfigIdle /\ CoerceIdle /\ GateIdle /\ CsvIdle /\ GeIdle
    /\ aaer_file \in AaerFiles
    /\ labels_file \in LabelFiles
    /\ fraud_index = EmptyIndex /\ firm_years = <<>> /\ enriched = <<>>
    /\ enriched_refs = <<>> /\ rerun = NoRerun
    /\ fraud_count = 0 /\ non_fraud_count = 0 /\ merge_exc = "none"
    /\ parquet = NoParquet /\ merge_pc = "start" /\ merge_stage = "none"
    /\ merge_exit = -1

\* sys.exit(1), or an exception caught by the entry point's except clause
MergeAbort(exc) ==
    /\ merge_pc' = "exited" /\ merge_exit' = 1 /\ merge_exc' = exc

\* params = load_params(), which ends the process when params.yaml is not
\* found; then
\* fraud_index = load_aaer_as_fraud_index(aaer_path, delimiter=csv_delimiter)
LoadAaerAsFraudIndex ==
    /\ merge_pc = "start"
    /\ merge_stage' = IF params_found THEN "load_aaer" ELSE "load_params"
    /\ IF ~params_found \/ ~aaer_file.exists \/ ~aaer_file.has_cik
       THEN MergeAbort("none") /\ UNCHANGED fraud_index
       ELSE IF AstypeRaises(aaer_file.rows)
       THEN MergeAbort("IntCastingNaNError") /\ UNCHANGED fraud_index
       ELSE /\ fraud_index' = BuildIndex(ValidRows(aaer_file.rows), EmptyIndex)
            /\ merge_pc' = "index_built"
            /\ UNCHANGED <<merge_exit, merge_exc>>
    /\ UNCHANGED <<aaer_file, labels_file, firm_years, enriched, enriched_refs,
                   rerun, fraud_count, non_fraud_count, parquet, coerce_vars,
                   config_vars, json_vars, gate_vars, csv_vars, ge_vars>>

\* firm_years = load_firm_years_labels(labels_path)
LoadFirmYearsLabels ==
    /\ merge_pc = "index_built"
    /\ merge_stage' = "load_labels"
    /\ IF ~labels_file.exists \/ labels_file.kind # "list"
       THEN MergeAbort("none") /\ UNCHANGED firm_years
       ELSE /\ firm_years' = labels_file.data
            /\ merge_pc' = "labels_loaded"
            /\ UNCHANGED <<merge_exit, merge_exc>>
    /\ UNCHANGED <<aaer_file, labels_file, fraud_index, enriched, enriched_refs,
                   rerun, fraud_count, non_fraud_count, parquet, coerce_vars, config_vars, json_vars,
                   gate_vars, csv_vars, ge_vars>>

\* enriched, fraud_count, non_fraud_count = enrich_with_fraud_labels(...);
\* firm_years is the list the call was given, as the call leaves it
Enrich ==
    /\ merge_pc = "labels_loaded"
    /\ merge_stage' = "enrich"
    /\ LET r == EnrichWithFraudLabels(firm_years, fraud_index)
       IN  /\ firm_years' = r.input_after
           /\ IF r.exc # "none"
              THEN /\ MergeAbort(r.exc)
                   /\ UNCHANGED <<enriched, enriched_refs, fraud_count,
                                  non_fraud_count>>
              ELSE /\ enriched' = r.enriched
                   /\ enriched_refs' = r.refs
                   /\ fraud_count' = r.fraud_count
                   /\ non_fraud_count' = r.non_fraud_count
                   /\ merge_pc' = "enriched"
                   /\ UNCHANGED <<merge_exit, merge_exc>>
    /\ UNCHANGED <<aaer_file, labels_file, fraud_index, rerun, parquet,
                   coerce_vars, config_vars, json_vars, gate_vars, csv_vars, ge_vars>>

\* enrich_with_fraud_labels called a second time with the list and the
\* index that the first call was given
EnrichAgain ==
    /\ merge_stage \in {"enrich", "save"}
    /\ ~rerun.done
    /\ LET r == EnrichWithFraudLabels(firm_years, fraud_index)
       IN  /\ firm_years' = r.input_after
           /\ rerun' = [done |-> TRUE, enriched |-> r.enriched,
                        fraud_count |-> r.fraud_count,
                        non_fraud_count |-> r.non_fraud_count,
                        exc |-> r.exc]
    /\ UNCHANGED <<aaer_file, labels_file, fraud_index, enriched,
                   enriched_refs, fraud_count, non_fraud_count, merge_exc,
                   parquet, merge_pc, merge_stage, merge_exit, coerce_vars, config_vars, json_vars,
                   gate_vars, csv_vars, ge_vars>>

\* mutant: the dataset is saved whatever the tally
SaveDecision_SavesEmpty(fraud, non_fraud) == "save"

\* total = fraud_count + non_fraud_count; if total == 0: sys.exit(1)
SaveDecision(fraud, non_fraud) ==
    IF fraud + non_fraud = 0 THEN "abort" ELSE "save"

\* df.to_parquet raises, before it creates the file, when the frame built
\* from the records has an object column of text and numbers: the
\* identifier is the one field whose type varies between the filings
ToParquetRaises(rows) ==
    \E i, j \in 1..Len(rows) :
        /\ DictGet(rows[i], "cik", Null).t = "str"
        /\ DictGet(rows[j], "cik", Null).t \in {"int", "float", "nan", "inf"}

\* the sanity check on the tally, then save_enriched_to_parquet
SaveEnriched ==
    /\ merge_pc = "enriched"
    /\ merge_stage' = "save"
    /\ IF SaveDecision(fraud_count, non_fraud_count) = "abort"
       THEN MergeAbort("none") /\ UNCHANGED parquet
       ELSE IF ToParquetRaises(enriched)
       THEN MergeAbort("ArrowTypeError") /\ UNCHANGED parquet
       ELSE /\ parquet' = [exists |-> TRUE, rows |-> enriched]
            /\ merge_pc' = "done" /\ merge_exit' = 0
            /\ UNCHANGED merge_exc
    /\ UNCHANGED <<aaer_file, labels_file, fraud_index, firm_years, enriched,
                   enriched_refs, rerun, fraud_count, non_fraud_count,
                   coerce_vars, config_vars, json_vars, gate_vars, csv_vars, ge_vars>>

MergeNext ==
    \/ LoadAaerAsFraudIndex
    \/ LoadFirmYearsLabels
    \/ Enrich
    \/ EnrichAgain
    \/ SaveEnriched

SpecMerge == MergeInit /\ [][MergeNext]_vars

\* ------------------------------------------- the two identifier coercions
RawIds ==
    {Null, NaN, Inf, ListV} \cup {IntV(n) : n \in -1..2}
    \cup {FloatV(t) : t \in {-15, 0, 10, 12, 20}}
    \cup {StrV(s) : s \in Strings}

CoerceInit ==
    /\ ConfigIdle /\ MergeIdle /\ GateIdle /\ CsvIdle /\ GeIdle
    /\ raw_id \in RawIds /\ enrich_cik = Unset /\ builder_cik = Unset

\* the enricher's try: int(raw_cik)
CoerceInEnricher ==
    /\ enrich_cik = Unset
    /\ enrich_cik' = EnrichCoerce(raw_id)
    /\ UNCHANGED <<raw_id, builder_cik, merge_vars, gate_vars, csv_vars, ge_vars,
                   config_vars, json_vars>>

\* the builder's dropna / to_numeric / astype(int)
CoerceInBuilder ==
    /\ builder_cik = Unset
    /\ builder_cik' = BuilderCoerce(raw_id)
    /\ UNCHANGED <<raw_id, enrich_cik, merge_vars, gate_vars, csv_vars, ge_vars,
                   config_vars, json_vars>>

CoerceNext == CoerceInEnricher \/ CoerceInBuilder

SpecCoerce == CoerceInit /\ [][CoerceNext]_vars

\* ------------------------------------------- validate_schema.py: the gate
GateInit ==
    /\ ConfigIdle /\ MergeIdle /\ CoerceIdle /\ CsvIdle /\ GeIdle
    /\ gate_csv \in GateCsvFiles
    /\ csv_delimiter = ";"
    /\ gate_labels \in GateLabelsFiles
    /\ gate_features \in GateFeaturesFiles
    /\ marker = NoMarker
    /\ last_run = NoRun
    /\ crash = NoCrash

\* with open(marker_file, 'w'): the two lines of the marker
WriteMarker == [exists |-> TRUE, lines |-> 2]

\* if all_passed: write the marker, return True; else: return False
GateDecision(all_passed) ==
    [wrote_marker |-> all_passed, returned |-> all_passed]

\* mutant: the process always reports success
GateExit_AlwaysZero(success) == 0

\* sys.exit(0 if success else 1)
GateExit(success) == IF success THEN 0 ELSE 1

\* params = load_params(), which ends the process with 1 when params.yaml
\* is not found; run_schema_validation(params);
\* sys.exit(0 if success else 1)
RunSchemaValidation ==
    LET checks == RunChecks(gate_csv, gate_labels, gate_features,
                            AAER_COLUMNS, REQUIRED_KEYS, RATIO_FEATURES)
        all_passed == AllPassed(checks)
        decision == GateDecision(all_passed)
    IN  /\ IF ~params_found
           THEN /\ last_run' = [NoRun EXCEPT !.exit = 1]
                /\ UNCHANGED marker
           ELSE /\ marker' = IF decision.wrote_marker THEN WriteMarker
                             ELSE marker
                /\ last_run' = [ran |-> TRUE, checks |-> checks,
                                nested_sample |->
                                    SamplePrefix(gate_features.entries,
                                                 SAMPLE_SIZE),
                                logged |-> LoggedFailures(checks),
                                all_passed |-> all_passed,
                                wrote_marker |-> decision.wrote_marker,
                                returned |-> decision.returned,
                                exit |-> GateExit(decision.returned)]
        /\ crash' = NoCrash
        /\ UNCHANGED <<gate_csv, csv_delimiter, gate_labels, gate_features,
                       merge_vars, coerce_vars, config_vars, json_vars,
                       csv_vars, ge_vars>>

\* the points of a run at which the process may be killed: while the
\* checks are executed, after the last check, after open(marker_file, 'w')
\* has created or emptied the file, after the first write has reached the
\* file, and after the file has been closed
CrashPoints == {"checks", "checked", "opened", "first_line", "closed"}

\* the marker file when the run is killed at the given point
MarkerAtCrash(at, old_marker) ==
    CASE at = "opened" -> [exists |-> TRUE, lines |-> 0]
      [] at = "first_line" -> [exists |-> TRUE, lines |-> 1]
      [] at = "closed" -> WriteMarker
      [] OTHER -> old_marker

\* a run of the gate is killed before it returns; the marker is opened only
\* by a run all of whose checks have passed; all_passed is the verdict of
\* the checks on the data of the killed run
GateCrash ==
    LET checks == RunChecks(gate_csv, gate_labels, gate_features,
                            AAER_COLUMNS, REQUIRED_KEYS, RATIO_FEATURES)
        all_passed == AllPassed(checks)
    IN  /\ params_found
        /\ \E at \in CrashPoints :
              /\ at \in {"opened", "first_line", "closed"}
                    => GateDecision(all_passed).wrote_marker
              /\ marker' = MarkerAtCrash(at, marker)
              /\ crash' = [crashed |-> TRUE, at |-> at,
                           all_passed |-> all_passed]
        /\ last_run' = NoRun
        /\ UNCHANGED <<gate_csv, csv_delimiter, gate_labels, gate_features,
                       merge_vars, coerce_vars, config_vars, json_vars,
                       csv_vars, ge_vars>>

\* the raw data changes between two runs of the gate
ReplaceCsv ==
    /\ gate_csv' \in GateCsvFiles \ {gate_csv}
    /\ UNCHANGED <<csv_delimiter, gate_labels, gate_features, marker,
                   last_run, crash, merge_vars, coerce_vars, config_vars,
                   json_vars, csv_vars, ge_vars>>

ReplaceLabels ==
    /\ gate_labels' \in GateLabelsFiles \ {gate_labels}
    /\ UNCHANGED <<gate_csv, csv_delimiter, gate_features, marker, last_run,
                   crash, merge_vars, coerce_vars, config_vars, json_vars,
                   csv_vars, ge_vars>>

ReplaceFeatures ==
    /\ gate_features' \in GateFeaturesFiles \ {gate_features}
    /\ UNCHANGED <<gate_csv, csv_delimiter, gate_labels, marker, last_run,
                   crash, merge_vars, coerce_vars, config_vars, json_vars,
                   csv_vars, ge_vars>>

GateNext ==
    \/ RunSchemaValidation
    \/ GateCrash
    \/ ReplaceCsv
    \/ ReplaceLabels
    \/ ReplaceFeatures

SpecGate == GateInit /\ [][GateNext]_vars

\* --------------------------------------- the two readers of the AAER CSV
MaxColumns == 3
ColumnNames == {"cik", "aaerNo", "dateTime"}

\* the header row of a file whose columns are written with delimiter sep
RECURSIVE JoinHeader(_, _)
JoinHeader(cols, sep) ==
    IF Len(cols) = 0 THEN <<>>
    ELSE IF Len(cols) = 1 THEN <<cols[1]>>
    ELSE <<cols[1], sep>> \o JoinHeader(Tail(cols), sep)

ColumnLists ==
    {c \in UNION {[1..n -> ColumnNames] : n \in 1..MaxColumns} :
        \A i, j \in 1..Len(c) : i # j => c[i] # c[j]}

CsvInit ==
    /\ ConfigIdle /\ MergeIdle /\ CoerceIdle /\ CsvIdle /\ GeIdle
    /\ csv_delimiter \in {";", ","}
    /\ \E cols \in ColumnLists, n \in 0..1 :
          gate_csv = CsvFile(TRUE, JoinHeader(cols, csv_delimiter), n)
    /\ gate_labels = JsonFile(FALSE, "dict", <<>>)
    /\ gate_features = JsonFile(FALSE, "dict", <<>>)
    /\ marker = NoMarker
    /\ last_run = NoRun
    /\ crash = NoCrash

\* df = pd.read_csv(csv_path, sep=delimiter); "cik" in df.columns
LoadAaerHeader(file, delimiter) ==
    LET columns == ReadCsvColumns(file.header, delimiter)
    IN  [done |-> TRUE, columns |-> columns, accepted |-> <<"cik">> \in columns]

\* validate_csv_schema on the file, asked for the column the builder needs
ValidatorHeader(file) ==
    [done |-> TRUE, columns |-> ActualColumns(file),
     accepted |-> ValidateCsvSchema(file, {<<"cik">>}).missing = {}]

ValidatorReadsCsv ==
    /\ ~validator_read.done
    /\ validator_read' = ValidatorHeader(gate_csv)
    /\ UNCHANGED <<builder_read, csv_check, gate_vars, merge_vars, coerce_vars, config_vars, json_vars,
                   ge_vars>>

BuilderReadsCsv ==
    /\ ~builder_read.done
    /\ builder_read' = LoadAaerHeader(gate_csv, csv_delimiter)
    /\ UNCHANGED <<validator_read, csv_check, gate_vars, merge_vars,
                   coerce_vars, config_vars, json_vars, ge_vars>>

CsvNext == ValidatorReadsCsv \/ BuilderReadsCsv

SpecCsv == CsvInit /\ [][CsvNext]_vars

\* ---------------------------------------- validate_data_ge.py: the stage
GeInit ==
    /\ ConfigIdle /\ MergeIdle /\ CoerceIdle /\ GateIdle /\ CsvIdle
    /\ ge_input \in GeInputs
    /\ ge_result = NoGeResult

\* raise SystemExit(main()); main starts with load_params(), whose
\* FileNotFoundError leaves the process with code 1
RunGeValidation ==
    /\ ~ge_result.done
    /\ ge_result' = IF params_found THEN GeMain(ge_input)
                    ELSE [NoGeResult EXCEPT !.done = TRUE, !.exit = 1,
                                            !.exc = "FileNotFoundError"]
    /\ UNCHANGED <<ge_input, merge_vars, coerce_vars, config_vars, json_vars,
                   gate_vars, csv_vars>>

GeNext == RunGeValidation

SpecGe == GeInit /\ [][GeNext]_vars

\* ------------------------------------------- the required-columns checks
\* frames that lack some of the columns required by validate_data_ge.py
GeFrames ==
    {[exists |-> TRUE, columns |-> REQUIRED_COLS \ lacking, rows |-> <<>>] :
        lacking \in SUBSET {"mda", "url", "fraud_end"}}

ColumnsInit ==
    /\ ConfigIdle /\ MergeIdle /\ CoerceIdle /\ CsvIdle
    /\ csv_delimiter \in {";", ","}
    /\ \E cols \in ColumnLists :
          gate_csv = CsvFile(TRUE, JoinHeader(cols, csv_delimiter), 1)
    /\ gate_labels = JsonFile(FALSE, "dict", <<>>)
    /\ gate_features = JsonFile(FALSE, "dict", <<>>)
    /\ marker = NoMarker
    /\ last_run = NoRun
    /\ crash = NoCrash
    /\ ge_input \in GeFrames
    /\ ge_result = NoGeResult

\* validate_csv_schema(aaer_path, expected_columns=aaer_columns)
CheckCsvColumns ==
    /\ ~csv_check.done
    /\ csv_check' = [done |-> TRUE,
                     out |-> ValidateCsvSchema(gate_csv, AAER_COLUMNS)]
    /\ UNCHANGED <<validator_read, builder_read, gate_vars, merge_vars,
                   coerce_vars, config_vars, json_vars, ge_vars>>

ColumnsNext == CheckCsvColumns \/ RunGeValidation

SpecColumns == ColumnsInit /\ [][ColumnsNext]_vars

\* ------------------------------------------- the three stages as processes
\* inputs that take each stage to each of its ends
ExitAaerFiles ==
    {[exists |-> FALSE, has_cik |-> FALSE, rows |-> <<>>],
     [exists |-> TRUE, has_cik |-> FALSE, rows |-> <<>>],
     [exists |-> TRUE, has_cik |-> TRUE,
      rows |-> <<AaerRow(StrV(<<"1">>), MetaA)>>]}

ExitFiling(c) == <<[k |-> "cik", v |-> c], [k |-> "name", v |-> Text("Acme")]>>

ExitLabelFiles ==
    {[exists |-> FALSE, kind |-> "list", data |-> <<>>],
     [exists |-> TRUE, kind |-> "dict", data |-> <<>>]}
    \cup {[exists |-> TRUE, kind |-> "list", data |-> d] :
            d \in {<<>>, <<ExitFiling(IntV(1))>>, <<ExitFiling(Inf)>>,
                   <<ExitFiling(StrV(<<"1">>)), ExitFiling(IntV(2))>>}}

ExitGeInputs ==
    {[exists |-> FALSE, columns |-> {}, rows |-> <<>>],
     [exists |-> TRUE, columns |-> REQUIRED_COLS \ {"mda"}, rows |-> <<>>]}
    \cup {[exists |-> TRUE, columns |-> REQUIRED_COLS, rows |-> <<r>>] :
            r \in {GeRow(IntV(1), Url("https"), Mda(500)),
                   GeRow(Null, Url("https"), Mda(500)),
                   GeRow(IntV(1), Url("ftp"), Mda(500))}}

ExitInit ==
    /\ CoerceIdle /\ CsvIdle
    /\ params_found \in BOOLEAN
    /\ sample_size = SAMPLE_SIZE /\ json_check = NoCheck
    /\ aaer_file \in ExitAaerFiles
    /\ labels_file \in ExitLabelFiles
    /\ fraud_index = EmptyIndex /\ firm_years = <<>> /\ enriched = <<>>
    /\ enriched_refs = <<>> /\ rerun = NoRerun
    /\ fraud_count = 0 /\ non_fraud_count = 0 /\ merge_exc = "none"
    /\ parquet = NoParquet /\ merge_pc = "start" /\ merge_stage = "none"
    /\ merge_exit = -1
    /\ gate_csv \in {CsvFile(FALSE, <<>>, 0),
                     CsvFile(TRUE, <<"cik", ",", "aaerNo">>, 1)}
    /\ csv_delimiter = ";"
    /\ gate_labels \in {JsonFile(TRUE, "dict", <<LabelGood>>),
                        JsonFile(TRUE, "dict", <<LabelGood, LabelBad>>)}
    /\ gate_features \in {JsonFile(FALSE, "dict", <<>>),
                          JsonFile(TRUE, "dict", <<FeatureGood>>),
                          JsonFile(TRUE, "dict", <<FeatureGood, FeatureCover60>>)}
    /\ marker = NoMarker
    /\ last_run = NoRun
    /\ crash = NoCrash
    /\ ge_input \in ExitGeInputs
    /\ ge_result = NoGeResult

\* the schema gate runs once
RunGateOnce == last_run.exit = -1 /\ RunSchemaValidation

ExitNext ==
    \/ RunGateOnce
    \/ LoadAaerAsFraudIndex
    \/ LoadFirmYearsLabels
    \/ Enrich
    \/ SaveEnriched
    \/ RunGeValidation

SpecExit == ExitInit /\ [][ExitNext]_vars

\* ------------------------------------------------ the index builder alone
\* the rows of AaerRows, and a row whose identifier cell is the text inf,
\* which pd.read_csv and pd.to_numeric read as the float infinity
IndexAaerRows == AaerRows \cup {AaerRow(Inf, MetaA)}

IndexAaerFiles ==
    {[exists |-> FALSE, has_cik |-> FALSE, rows |-> <<>>],
     [exists |-> TRUE, has_cik |-> FALSE, rows |-> <<>>]}
    \cup {[exists |-> TRUE, has_cik |-> TRUE, rows |-> r] :
            r \in UNION {[1..n -> IndexAaerRows] : n \in 0..MaxAaerRows}}

IndexInit ==
    /\ ConfigIdle /\ CoerceIdle /\ GateIdle /\ CsvIdle /\ GeIdle
    /\ aaer_file \in IndexAaerFiles
    /\ labels_file = [exists |-> FALSE, kind |-> "list", data |-> <<>>]
    /\ fraud_index = EmptyIndex /\ firm_years = <<>> /\ enriched = <<>>
    /\ enriched_refs = <<>> /\ rerun = NoRerun
    /\ fraud_count = 0 /\ non_fraud_count = 0 /\ merge_exc = "none"
    /\ parquet = NoParquet /\ merge_pc = "start" /\ merge_stage = "none"
    /\ merge_exit = -1

IndexNext == LoadAaerAsFraudIndex

SpecIndex == IndexInit /\ [][IndexNext]_vars

\* ------------------------------------------- validate_json_schema alone
MaxEntries == 6

\* an entry that is a list, not a mapping
EntryNotDict == [FeatureGood EXCEPT !.isdict = FALSE]

SampleEntries == {FeatureGood, FeatureNoCik, EntryNotDict}

\* the file is missing, or holds a list, or a mapping of 0..MaxEntries
\* entries in file order
SampleFiles ==
    {JsonFile(FALSE, "dict", <<>>), JsonFile(TRUE, "list", <<FeatureGood>>)}
    \cup {JsonFile(TRUE, "dict", e) :
            e \in UNION {[1..n -> SampleEntries] : n \in 0..MaxEntries}}

SampleInit ==
    /\ MergeIdle /\ CoerceIdle /\ CsvIdle /\ GeIdle
    /\ params_found = TRUE
    /\ sample_size \in {2, SAMPLE_SIZE}
    /\ json_check = NoCheck
    /\ gate_csv = CsvFile(FALSE, <<>>, 0)
    /\ csv_delimiter = ";"
    /\ gate_labels = JsonFile(FALSE, "dict", <<>>)
    /\ gate_features \in SampleFiles
    /\ marker = NoMarker
    /\ last_run = NoRun
    /\ crash = NoCrash

\* validate_json_schema(features_path, expected_keys=required_keys,
\* sample_size=sample_size)
ValidateTopLevel ==
    /\ ~json_check.done
    /\ json_check' = [done |-> TRUE,
                      out |-> ValidateJsonSchema(gate_features, REQUIRED_KEYS,
                                                 sample_size)]
    /\ UNCHANGED <<sample_size, params_found, merge_vars, coerce_vars,
                   gate_vars, csv_vars, ge_vars>>

SampleNext == ValidateTopLevel

SpecSample == SampleInit /\ [][SampleNext]_vars

\* ------------------------------------------------------------------ claims
EnrichEnded == merge_stage \in {"enrich", "save"}
EnrichRaised == merge_stage = "enrich" /\ merge_exc # "none"
EnrichReturned == EnrichEnded /\ ~EnrichRaised
IndexBuilt == merge_pc \in {"index_built", "labels_loaded", "enriched", "done"}

RawCikOf(entry) == DictGet(entry, "cik", Null)

\* the identifier of a filing is an integer for Python and a key of the index
CoercesToKey(entry) ==
    /\ PyInt(RawCikOf(entry)).kind = "int"
    /\ PyInt(RawCikOf(entry)).n \in DOMAIN fraud_index

AuditKeys == {"fraud_aaer_no", "fraud_start", "fraud_end",
              "fraud_case_datetime", "fraud_release_no"}

AuditOf(out) ==
    [aaerNo |-> DictGet(out, "fraud_aaer_no", Null),
     fraud_start |-> DictGet(out, "fraud_start", Null),
     fraud_end |-> DictGet(out, "fraud_end", Null),
     dateTime |-> DictGet(out, "fraud_case_datetime", Null),
     releaseNo |-> DictGet(out, "fraud_release_no", Null)]

LabelledFraud(out, entry) ==
    /\ DictGet(out, "is_fraud", Null) = IntV(1)
    /\ AuditKeys \subseteq DictKeys(out)
    /\ AuditOf(out) = fraud_index[PyInt(RawCikOf(entry)).n]

LabelledNonFraud(out) ==
    /\ DictGet(out, "is_fraud", Null) = IntV(0)
    /\ AuditKeys \subseteq DictKeys(out)
    /\ \A k \in AuditKeys : DictGet(out, k, IntV(0)) = Null

\* C1: whenever the enrichment has returned, every filing whose identifier
\* coerces to an integer that is a key of the fraud index has an output
\* record, at the same position, with is_fraud = 1 and the five audit
\* fields equal to the fields of that index entry.
C1_MatchedCarriesIndexEntry ==
    EnrichReturned =>
        /\ Len(enriched) = Len(firm_years)
        /\ \A i \in 1..Len(firm_years) :
              CoercesToKey(firm_years[i])
                  => LabelledFraud(enriched[i], firm_years[i])

\* a matched filing has been enriched from an entry whose fields differ
C1_Witness ==
    /\ EnrichReturned
    /\ \E i \in 1..Len(firm_years) :
          /\ CoercesToKey(firm_years[i])
          /\ RawCikOf(firm_years[i]).t = "str"
          /\ AuditOf(enriched[i]).aaerNo = Text("AAER-2")
          /\ AuditOf(enriched[i]).fraud_start = NaN

\* C2: once the enrichment has ended, every filing whose identifier is
\* missing, is not coercible to an integer, or coerces to an integer that
\* is not a key of the index has an output record with is_fraud = 0 and
\* the five audit fields present and null.
C2_UnmatchedCarriesNulls ==
    EnrichEnded =>
        \A i \in 1..Len(firm_years) :
            ~CoercesToKey(firm_years[i])
                => i <= Len(enriched) /\ LabelledNonFraud(enriched[i])

\* the last row of the source, in source order, whose identifier coerces to k
LastRowFor(k) ==
    LET hits == {j \in 1..Len(aaer_file.rows) :
                    /\ BuilderCoerce(aaer_file.rows[j].cik).kind = "int"
                    /\ BuilderCoerce(aaer_file.rows[j].cik).n = k}
    IN  CHOOSE j \in hits : \A h \in hits : h <= j

\* C3: once the index is built, the entry of every key holds exactly the
\* five fields of the last source row whose identifier coerces to that key.
C3_LastRecordWins ==
    IndexBuilt =>
        \A k \in DOMAIN fraud_index :
            fraud_index[k] = FraudEntry(aaer_file.rows[LastRowFor(k)])

\* two rows with different raw identifiers collide and the later one is kept
C3_Witness ==
    /\ IndexBuilt
    /\ Len(aaer_file.rows) = 2
    /\ aaer_file.rows[1].cik # aaer_file.rows[2].cik
    /\ BuilderCoerce(aaer_file.rows[1].cik) = Coerced(1)
    /\ BuilderCoerce(aaer_file.rows[2].cik) = Coerced(1)
    /\ FraudEntry(aaer_file.rows[1]) # FraudEntry(aaer_file.rows[2])
    /\ fraud_index[1] = FraudEntry(aaer_file.rows[2])

\* C8: the enrichment never raises because of an identifier value: it
\* returns one record per filing, and a filing whose identifier cannot be
\* coerced to an integer is emitted with is_fraud = 0.
C8_EnrichNeverRaises ==
    EnrichEnded =>
        /\ ~EnrichRaised
        /\ Len(enriched) = Len(firm_years)
        /\ \A i \in 1..Len(firm_years) :
              PyInt(RawCikOf(firm_years[i])).kind # "int"
                  => DictGet(enriched[i], "is_fraud", Null) = IntV(0)

\* C9: for every raw identifier value the enricher's coercion succeeds
\* exactly when the index builder's coercion succeeds, and both yield the
\* same integer.
C9_SameCoercionRule ==
    (enrich_cik # Unset /\ builder_cik # Unset) =>
        /\ (enrich_cik.kind = "int") <=> (builder_cik.kind = "int")
        /\ enrich_cik.kind = "int" => enrich_cik.n = builder_cik.n

\* C4: whenever the most recent run of the gate had a failing check, no
\* marker file exists.
C4_NoMarkerAfterFailedRun ==
    (last_run.ran /\ ~last_run.all_passed) => ~marker.exists

RanAndPassed(c) == last_run.checks[c].ran /\ last_run.checks[c].out.passed

\* C5: a run writes the marker, returns True or exits with 0 only if each
\* of the four hard checks (tabular columns, labels JSON, firm-years top
\* level, firm-years nested structure) was executed and reported pass.
C5_MarkerOnlyIfEveryHardCheckPassed ==
    (last_run.ran
        /\ (last_run.wrote_marker \/ last_run.returned \/ last_run.exit = 0))
      => \A c \in CheckNames : RanAndPassed(c)

\* a run that passed and wrote the marker
C5_Witness ==
    /\ last_run.ran /\ last_run.wrote_marker /\ last_run.exit = 0
    /\ marker.exists
    /\ \A c \in CheckNames : RanAndPassed(c)

C10_SameColumnsForBothReaders ==
    (validator_read.done /\ builder_read.done) =>
        /\ validator_read.columns = builder_read.columns
        /\ validator_read.accepted <=> builder_read.accepted

HardAllSucceed == \A x \in HardExpectations : ge_result.outcomes[x]
SoftAllSucceed == \A x \in SoftExpectations : ge_result.outcomes[x]

SourcesLoaded ==
    /\ aaer_file.exists /\ aaer_file.has_cik
    /\ labels_file.exists /\ labels_file.kind = "list"

\* C11: the output dataset is written only by a run that loaded both
\* sources and whose enrichment returned a tally above zero, and that run
\* exits with 0; a run over an empty filings list aborts with exit code 1
\* and writes nothing, and so does a run that aborts anywhere else (source
\* file missing, labels not a list, identifier column missing, an
\* exception).
C11_OutputOnlyAfterNonEmptyEnrichment ==
    /\ parquet.exists =>
          /\ SourcesLoaded /\ EnrichReturned
          /\ fraud_count + non_fraud_count > 0
          /\ parquet.rows = enriched
          /\ merge_pc = "done" /\ merge_exit = 0
    /\ merge_pc = "exited" => (~parquet.exists /\ merge_exit = 1)
    /\ (merge_stage = "save" /\ firm_years = <<>>) => merge_pc = "exited"

\* both sources were loaded, the filings list is empty, the run has aborted
\* at the sanity check
C11_Witness ==
    /\ SourcesLoaded /\ labels_file.data = <<>>
    /\ merge_stage = "save" /\ merge_pc = "exited" /\ merge_exit = 1
    /\ merge_exc = "none" /\ ~parquet.exists

\* C12: once a call of the enrichment has ended, the list it was given is
\* as it was loaded: same length, same order, every record with exactly the
\* keys and values it had (no derived field added, none altered); the
\* records of the returned list are new objects, none of them a record of
\* the input, and no two of them the same object.
C12_InputLeftUnchanged ==
    EnrichEnded =>
        /\ firm_years = labels_file.data
        /\ EnrichReturned =>
              /\ Len(enriched_refs) = Len(enriched)
              /\ \A k \in 1..Len(enriched_refs) :
                    enriched_refs[k] \notin 1..Len(firm_years)
              /\ \A j, k \in 1..Len(enriched_refs) :
                    j # k => enriched_refs[j] # enriched_refs[k]

\* a filing that already carried a label has been matched: the output
\* record has the label overwritten, the input record has kept its own;
\* another filing had no derived field and still has none
C12_Witness ==
    /\ EnrichReturned /\ Len(firm_years) = 2
    /\ \E i, j \in 1..2 :
          /\ DictGet(firm_years[i], "is_fraud", Null) = IntV(7)
          /\ DictGet(enriched[i], "is_fraud", Null) = IntV(1)
          /\ ~DictHas(firm_years[j], "is_fraud")
          /\ DictGet(enriched[j], "is_fraud", Null) = IntV(0)

DerivedKeys == {"is_fraud"} \cup AuditKeys

\* out is the enrichment of entry: the fields of entry that are not derived
\* ones, with their values, and the six derived fields, set by whether the
\* identifier of entry is a key of the index
EnrichmentOf(out, entry) ==
    /\ DictKeys(out) = DictKeys(entry) \cup DerivedKeys
    /\ \A k \in DictKeys(entry) \ DerivedKeys :
          DictGet(out, k, Null) = DictGet(entry, k, Null)
    /\ IF CoercesToKey(entry) THEN LabelledFraud(out, entry)
       ELSE LabelledNonFraud(out)

\* C13: whenever the enrichment has returned, the output has the length of
\* the input and its i-th record is the enrichment of the i-th input
\* record, for every position i.
C13_OrderPreserved ==
    EnrichReturned =>
        /\ Len(enriched) = Len(firm_years)
        /\ \A i \in 1..Len(firm_years) :
              EnrichmentOf(enriched[i], firm_years[i])

\* two filings with different identifiers, the first matched and the second
\* not, have been enriched in place
C13_Witness ==
    /\ EnrichReturned /\ Len(firm_years) = 2
    /\ RawCikOf(firm_years[1]) = StrV(<<"1">>)
    /\ RawCikOf(firm_years[2]) = IntV(2)
    /\ RawCikOf(enriched[1]) = StrV(<<"1">>)
    /\ RawCikOf(enriched[2]) = IntV(2)
    /\ DictGet(enriched[1], "is_fraud", Null) = IntV(1)
    /\ DictGet(enriched[2], "is_fraud", Null) = IntV(0)

PositionOf(d, k) == CHOOSE i \in 1..Len(d) : d[i].k = k

\* the derived fields come in the same order in the records r1 and r2
SameDerivedOrder(r1, r2) ==
    \A a, b \in DerivedKeys :
        (PositionOf(r1, a) < PositionOf(r1, b))
            <=> (PositionOf(r2, a) < PositionOf(r2, b))

RecordsOf(list) == {list[i] : i \in 1..Len(list)}

Covers80(entry) ==
    Cardinality(entry.ratios \cap RATIO_FEATURES) * 100
        >= 80 * Cardinality(RATIO_FEATURES)

\* the entry gives the nested check no reason to fail
PassesNested(entry) ==
    /\ entry.isdict /\ "financial_ratios" \in entry.keys
    /\ entry.ratios_isdict /\ Covers80(entry)
    /\ entry.mda_isstr /\ entry.mda_len >= MDA_MIN_LEN

\* the failure that the nested check reports for an entry below 80 %
CoverageFailure(entry) ==
    Outcome(FALSE,
            <<"Entry has only",
              (Cardinality(entry.ratios \cap RATIO_FEATURES) * 1000)
                  \div Cardinality(RATIO_FEATURES),
              "tenths of a percent of expected ratios">>,
            RATIO_FEATURES \ entry.ratios)

\* C15: in a run that executed the nested check, the check passes only if
\* every sampled entry holds at least 80 % of the expected feature names,
\* names outside the expected ones not counted; an entry of exactly 80 %
\* is accepted; the first sampled entry below 80 % fails the check with a
\* message that gives the coverage reached and the expected names that
\* are missing.
C15_CoverageBoundary ==
    (last_run.ran /\ last_run.checks["nested"].ran) =>
        LET sample == last_run.nested_sample
            out == last_run.checks["nested"].out
        IN  /\ out.passed <=> \A i \in 1..Len(sample) : PassesNested(sample[i])
            /\ \A i \in 1..Len(sample) :
                  ((\A j \in 1..(i - 1) : PassesNested(sample[j]))
                      /\ sample[i].isdict /\ sample[i].ratios_isdict
                      /\ "financial_ratios" \in sample[i].keys
                      /\ ~Covers80(sample[i]))
                  => out = CoverageFailure(sample[i])

\* an entry with four of the five expected names and one other name has
\* been accepted
C15_Witness ==
    /\ last_run.ran /\ last_run.checks["nested"].ran
    /\ last_run.checks["nested"].out.passed
    /\ \E i \in 1..Len(last_run.nested_sample) :
          LET e == last_run.nested_sample[i]
          IN  /\ Cardinality(e.ratios \cap RATIO_FEATURES) = 4
              /\ Cardinality(RATIO_FEATURES) = 5
              /\ e.ratios \ RATIO_FEATURES # {}

\* C16: a frame that lacks required columns gets one failure that lists
\* every required column the frame lacks, the set difference of the
\* required columns and the columns of the frame, whatever the order of
\* the columns: validate_csv_schema on the columns it read from the file
\* (those of the file, when the file is comma-separated), require_columns
\* on the columns of the dataset.
C16_EveryMissingColumnListed ==
    /\ csv_check.done =>
          LET lacking == AAER_COLUMNS \ ActualColumns(gate_csv)
          IN  /\ csv_check.out.missing = lacking
              /\ lacking # {} =>
                    (~csv_check.out.passed
                        /\ csv_check.out.msg = "Missing columns")
              /\ lacking = {} => csv_check.out.passed
              /\ csv_delimiter = "," =>
                    \A c \in ColumnNames :
                        <<c>> \in csv_check.out.missing
                            <=> /\ <<c>> \in AAER_COLUMNS
                                /\ \A i \in 1..Len(gate_csv.header) :
                                      gate_csv.header[i] # c
    /\ ge_result.done =>
          LET lacking == REQUIRED_COLS \ ge_input.columns
          IN  /\ ge_result.missing = lacking
              /\ lacking # {} <=> ge_result.exc = "ValueError"
              /\ lacking # {} => (~ge_result.validated /\ ge_result.exit = 1)

\* both checks have reported more than one missing column at once
C16_Witness ==
    /\ csv_check.done /\ csv_delimiter = ","
    /\ csv_check.out.missing = AAER_COLUMNS
    /\ ge_result.done /\ ge_result.missing = {"mda", "url", "fraud_end"}

GateEnded == last_run.exit # -1
MergeEnded == merge_exit # -1
GeEnded == ge_result.done

\* C17: each stage ends with exit code 0 exactly when it fully succeeded:
\* the schema gate when every check was executed and passed and the marker
\* is written; the merge when the output dataset is written; the quality
\* validation when the suite was evaluated and succeeded. A stage that
\* does not find its configuration or an input file, or whose validation
\* fails, ends with a code other than 0.
C17_ExitZeroIffStageSucceeded ==
    /\ GateEnded =>
          /\ last_run.exit = 0
                <=> /\ last_run.ran /\ last_run.wrote_marker
                    /\ marker = WriteMarker
                    /\ \A c \in CheckNames : RanAndPassed(c)
          /\ (~params_found \/ ~gate_csv.exists \/ ~gate_features.exists)
                => last_run.exit # 0
    /\ MergeEnded =>
          /\ merge_exit = 0
                <=> (parquet.exists /\ parquet.rows = enriched
                        /\ merge_pc = "done")
          /\ (~params_found \/ ~aaer_file.exists \/ ~labels_file.exists
                \/ merge_exc # "none") => merge_exit # 0
    /\ GeEnded =>
          /\ ge_result.exit = 0
                <=> /\ ge_result.validated
                    /\ \A x \in HardExpectations \cup SoftExpectations :
                          ge_result.outcomes[x]
          /\ (~params_found \/ ~ge_input.exists \/ ge_result.exc # "none")
                => ge_result.exit # 0

\* the three stages have ended: the gate with the marker and 0, the merge
\* with the dataset and 0, the quality validation with a failed suite and 2
C17_Witness ==
    /\ GateEnded /\ last_run.exit = 0 /\ marker = WriteMarker
    /\ MergeEnded /\ merge_exit = 0 /\ parquet.exists
    /\ GeEnded /\ ge_result.validated /\ ge_result.exit = 2

\* C18: when a run of the gate has been killed, at whatever point, a marker
\* file exists, whole or in part, only if the data of that run passes every
\* check of the run.
C18_NoMarkerUnlessKilledRunPassed ==
    crash.crashed => (marker.exists => crash.all_passed)

\* the identifier cell of the row is present and is a number for pandas
CellCoercesTo(row, k) ==
    /\ row.cik # Null
    /\ BuilderCoerce(row.cik).kind = "int"
    /\ BuilderCoerce(row.cik).n = k

\* the identifier cell of the row is missing or is no integer for pandas
CellDropped(row) == row.cik = Null \/ BuilderCoerce(row.cik).kind # "int"

\* C19: when the builder has read a file that has the identifier column,
\* it returns an index, never fails: the index has an entry for k exactly
\* when the identifier of some row is present and coerces to k, a row
\* whose identifier is missing or not coercible adds no entry, every entry
\* holds the five metadata fields and nothing else, and the index is the
\* empty mapping when every row is dropped.
C19_IndexOfCoercibleIdentifiers ==
    (merge_stage = "load_aaer" /\ aaer_file.exists /\ aaer_file.has_cik) =>
        /\ merge_pc = "index_built" /\ merge_exc = "none"
        /\ \A k \in -2..3 :
              k \in DOMAIN fraud_index
                  <=> \E j \in 1..Len(aaer_file.rows) :
                          CellCoercesTo(aaer_file.rows[j], k)
        /\ DOMAIN fraud_index \subseteq -2..3
        /\ \A k \in DOMAIN fraud_index :
              DOMAIN fraud_index[k] = {"aaerNo", "fraud_start", "fraud_end",
                                       "dateTime", "releaseNo"}
        /\ (\A j \in 1..Len(aaer_file.rows) : CellDropped(aaer_file.rows[j]))
              => fraud_index = EmptyIndex

\* the number of entries at the head of the file that the check inspects
PrefixLen ==
    IF Len(gate_features.entries) < sample_size
    THEN Len(gate_features.entries) ELSE sample_size

\* the entry is a mapping that has every required key
HasRequiredKeys(entry) == entry.isdict /\ REQUIRED_KEYS \subseteq entry.keys

\* the file with the entry at position i replaced by e
WithEntry(file, i, e) == [file EXCEPT !.entries[i] = e]

\* C20: the required-key check passes exactly when the file holds a
\* non-empty mapping and each of its first N entries, in file order, is a
\* mapping with every required key, N being the sample size, or the number
\* of entries when there are fewer; whatever an entry after these N
\* holds, the outcome, message included, is the same.
C20_OnlyThePrefixIsInspected ==
    json_check.done =>
        /\ json_check.out.passed
              <=> /\ gate_features.exists /\ gate_features.kind = "dict"
                  /\ Len(gate_features.entries) > 0
                  /\ \A i \in 1..PrefixLen :
                        HasRequiredKeys(gate_features.entries[i])
        /\ (gate_features.exists /\ gate_features.kind = "dict") =>
              \A i \in (PrefixLen + 1)..Len(gate_features.entries) :
                  \A e \in SampleEntries :
                      ValidateJsonSchema(WithEntry(gate_features, i, e),
                                         REQUIRED_KEYS, sample_size)
                          = json_check.out

\* a file of six entries, the first five with every required key, the
\* sixth not a mapping, has passed with a sample of five
C20_Witness ==
    /\ json_check.done /\ json_check.out.passed
    /\ sample_size = SAMPLE_SIZE
    /\ Len(gate_features.entries) = SAMPLE_SIZE + 1
    /\ ~gate_features.entries[SAMPLE_SIZE + 1].isdict

\* the number of records of the list whose label is_fraud is the integer v
LabelCount(list, v) ==
    Cardinality({i \in 1..Len(list) :
                    DictGet(list[i], "is_fraud", Null) = IntV(v)})

\* the tallies f and n are those of the output out of a call on input
TallyConsistent(f, n, out, input) ==
    /\ f = LabelCount(out, 1)
    /\ n = LabelCount(out, 0)
    /\ f + n = Len(input)

\* C21: whenever a call of the enrichment has returned, fraud_count is the
\* number of output records with is_fraud = 1, non_fraud_count the number
\* with is_fraud = 0, and their sum the length of the input list, also for
\* a filing that carried a label of its own and for the second call; so
\* the pipeline's total is 0, and the run aborts, exactly for an empty
\* input list.
C21_TallyConsistentWithOutput ==
    /\ EnrichReturned =>
          /\ TallyConsistent(fraud_count, non_fraud_count, enriched, firm_years)
          /\ SaveDecision(fraud_count, non_fraud_count) = "abort"
                <=> firm_years = <<>>
    /\ (EnrichEnded /\ rerun.done /\ rerun.exc = "none") =>
          TallyConsistent(rerun.fraud_count, rerun.non_fraud_count,
                          rerun.enriched, firm_years)

\* two source rows of one identifier, the later one kept; a filing of that
\* identifier and a filing of another one: one fraud, one non-fraud
C21_Witness ==
    /\ EnrichReturned
    /\ Len(aaer_file.rows) = 2
    /\ BuilderCoerce(aaer_file.rows[1].cik) = BuilderCoerce(aaer_file.rows[2].cik)
    /\ FraudEntry(aaer_file.rows[1]) # FraudEntry(aaer_file.rows[2])
    /\ Len(firm_years) = 2
    /\ CoercesToKey(firm_years[1]) /\ ~CoercesToKey(firm_years[2])
    /\ AuditOf(enriched[1]) = FraudEntry(aaer_file.rows[2])
    /\ LabelledNonFraud(enriched[2])
    /\ fraud_count = 1 /\ non_fraud_count = 1

====
